---- MODULE Spec2Model ----
(***************************************************************************)
(* proc-macro-stats (src/main.rs): the pipeline                            *)
(*   parse_index -> check_and_download_crates -> find_proc_macros ->       *)
(*   find_weird_dependencies -> write_data                                 *)
(* modelled stage by stage.  A string is a sequence of one-character        *)
(* strings (a fixed name such as Cargo.toml is written as one atom), a path *)
(* is a sequence of components, a component is a string.                   *)
(***************************************************************************)
EXTENDS Integers, Sequences, FiniteSets, TLC

VARIABLES
    \* get_cache_name called on its own
    crate_name,     \* the argument
    cache_name,     \* the value returned: [st, path], st "none" before the call
    \* the file system below the working directory
    dirs,           \* the directories that exist (paths)
    cache,          \* the regular files that exist: path -> content
    \* main and check_and_download_crates, run after run
    run,            \* the number of the current run of the program
    pc,             \* pc[p]: where the closure of index entry p stands
    main_pc,        \* where main stands: "download", "classify", "failed"
    unit,           \* unit[r][p]: what p's closure did in run r
    seen,           \* seen[p]: the manifest content p's last cache hit found, as a set
    \* parse_index
    files,          \* files[f]: the lines of index file f, oldest first
    file_res,       \* file_res[f]: what the closure of file f returned
    output,         \* what parse_index returned
    \* find_proc_macros
    cargo_toml_files,   \* the manifest files found in the cache, in order
    closure_res,        \* closure_res[i]: what the closure of file i returned
    proc_macros,        \* what find_proc_macros returned
    \* find_weird_dependencies and write_data
    mapping,        \* the argument of find_weird_dependencies
    weird_deps,     \* what find_weird_dependencies returned
    data,           \* write_data: the packages left by the filter of line 316
    pos,            \* pos[n]: how many of its deps the closure of n has counted
    stats,          \* the DashMap: dependency name -> count
    dependencies,   \* the Vec<Data> collected at line 334
    wd_pc           \* where main stands in the last two stages

cacheVars == <<run, pc, main_pc, unit, seen>>
shardVars == <<crate_name, cache_name>>
indexVars == <<files, file_res, output>>
fsVars == <<dirs, cache>>
classifyVars == <<cargo_toml_files, closure_res, proc_macros>>
depsVars == <<mapping, weird_deps, data, pos, stats, dependencies, wd_pc>>

vars == <<crate_name, cache_name, dirs, cache, run, pc, main_pc, unit, seen,
          files, file_res, output, cargo_toml_files, closure_res, proc_macros,
          mapping, weird_deps, data, pos, stats, dependencies, wd_pc>>

(***************************************************************************)
(* Bounds                                                                  *)
(***************************************************************************)
MaxNameLen == 5
MaxRuns == 2
MaxEntries == 2
MaxLines == 2
NumManifests == 2
NumMacros == 2

(***************************************************************************)
(* Strings and paths                                                       *)
(***************************************************************************)
Min(a, b) == IF a < b THEN a ELSE b

\* Iterator::take(n) and Iterator::skip(n) over the chars of a string
Take(s, n) == SubSeq(s, 1, Min(n, Len(s)))
Skip(s, n) == SubSeq(s, n + 1, Len(s))

\* the characters package names are drawn from
Chars == {"a", "b", "c"}

StringsUpTo(n) == UNION {[1..k -> Chars] : k \in 1..n}

\* the names get_cache_name is called on: every short name, and the literal
\* abcdxyz
Names == StringsUpTo(MaxNameLen) \cup {<<"a", "b", "c", "d", "x", "y", "z">>}

CARGO_TOML_CACHE == <<"toml_cache">>
CARGO_TOML == <<"Cargo.toml">>

\* every non-empty prefix of a path: the directories create_dir_all makes
Prefixes(path) == {SubSeq(path, 1, k) : k \in 1..Len(path)}

(***************************************************************************)
(* get_cache_name                                                          *)
(***************************************************************************)
\* the match with the last arm taking the first two chars twice (no skip(2))
ShardWrong(name) ==
    LET n == Len(name) IN
    IF n = 1 THEN <<CARGO_TOML_CACHE, <<"1">>>>
    ELSE IF n = 2 THEN <<CARGO_TOML_CACHE, <<"2">>>>
    ELSE IF n = 3 THEN <<CARGO_TOML_CACHE, <<"3">>, Take(name, 1)>>
    ELSE <<CARGO_TOML_CACHE, Take(name, 2), Take(name, 2)>>

\* lines 180-192, the match on crate_name.len(): the path pushed onto
\* CARGO_TOML_CACHE.  Package names are ASCII and not empty, so len(), in
\* bytes, is the number of chars.
Shard(name) ==
    LET n == Len(name) IN
    IF n = 1 THEN <<CARGO_TOML_CACHE, <<"1">>>>
    ELSE IF n = 2 THEN <<CARGO_TOML_CACHE, <<"2">>>>
    ELSE IF n = 3 THEN <<CARGO_TOML_CACHE, <<"3">>, Take(name, 1)>>
    ELSE <<CARGO_TOML_CACHE, Take(name, 2), Take(Skip(name, 2), 2)>>

\* std::fs::create_dir_all(&path)?: every outcome the call can have on the
\* directories d.  It makes the missing ancestors first; an I/O error leaves
\* the ancestors made so far and is returned by `?`.
CreateDirAll(path, d) ==
    {[ok |-> TRUE, dirs |-> d \cup Prefixes(path)]}
    \cup {[ok |-> FALSE, dirs |-> d \cup {SubSeq(path, 1, j) : j \in 1..k}] :
            k \in {i \in 0..(Len(path) - 1) : SubSeq(path, 1, i + 1) \notin d}}

\* get_cache_name(crate_name): the outcomes [ok, path, dirs]
GetCacheName(name, d) ==
    {[ok |-> r.ok, path |-> IF r.ok THEN Shard(name) ELSE <<>>, dirs |-> r.dirs] :
        r \in CreateDirAll(Shard(name), d)}

(***************************************************************************)
(* The index handed to check_and_download_crates, and the cache layout     *)
(***************************************************************************)
\* Vec<GitIndexEntry>: two packages whose names share a shard
Index == <<[name |-> <<"a", "b", "c", "d">>, vers |-> <<"1">>],
           [name |-> <<"a", "b", "c", "d", "e">>, vers |-> <<"1">>]>>

Pkgs == 1..Len(Index)

\* format!("{}-{}", name, vers)
VersionDir(p) == Index[p].name \o <<"-">> \o Index[p].vers

\* toml_path: path/<name>-<vers>/Cargo.toml, path from get_cache_name
TomlPath(p) == Shard(Index[p].name) \o <<VersionDir(p), CARGO_TOML>>

\* a test for a directory at the path, in place of Path::exists
ExistsAsDir(path) == path \in dirs

\* line 145, Path::exists on toml_path: there is a file at the path
Exists(path) == path \in DOMAIN cache

\* the content at a path: a set of one content, empty when there is no file
ContentAt(c, path) == IF path \in DOMAIN c THEN {c[path]} ELSE {}

(***************************************************************************)
(* The remote archive: what the tar entries iterator yields                *)
(***************************************************************************)
DotDot == <<"..">>

\* the items the iteration over the archive fetched for p can yield: an Err
\* item, or an entry with a path chosen by whoever packed the archive
EntryItems(p) ==
    {[ok |-> FALSE, path |-> <<>>]}
    \cup {[ok |-> TRUE, path |-> <<VersionDir(q), CARGO_TOML>>] : q \in Pkgs}
    \cup {[ok |-> TRUE, path |-> ep] :
            ep \in {<<VersionDir(p), <<"src">>, <<"lib.rs">>>>,
                    <<VersionDir(p), <<"tests">>, CARGO_TOML>>,
                    <<CARGO_TOML>>,
                    <<DotDot, CARGO_TOML>>,
                    <<VersionDir(p), DotDot>>}}

Archives(p) == UNION {[1..k -> EntryItems(p)] : k \in 0..MaxEntries}

\* Path::file_name: the last component, None (<<>>) when it is ".."
FileName(path) ==
    IF path = <<>> \/ path[Len(path)] = DotDot THEN <<>> ELSE path[Len(path)]

\* the for loop over archive.entries(): the index of the first Ok entry whose
\* file name is Cargo.toml, 0 when the loop ends without one
ManifestEntry(archive) ==
    LET hits == {i \in 1..Len(archive) :
                    archive[i].ok /\ FileName(archive[i].path) = CARGO_TOML}
    IN IF hits = {} THEN 0 ELSE CHOOSE i \in hits : \A j \in hits : i <= j

\* Entry::unpack_in(dst): the file it writes, <<>> when it skips the entry
\* because its path holds a ".." component
UnpackTarget(dst, epath) ==
    IF \E i \in 1..Len(epath) : epath[i] = DotDot THEN <<>> ELSE dst \o epath

\* the file system after path is written with content: unpack_in makes the
\* missing parent directories and replaces a file that is there
WriteFile(c, path, content) ==
    [q \in DOMAIN c \cup {path} |-> IF q = path THEN content ELSE c[q]]

Parents(path) == {SubSeq(path, 1, k) : k \in 1..(Len(path) - 1)}

(***************************************************************************)
(* main and check_and_download_crates                                      *)
(***************************************************************************)
\* what is recorded of a closure that has not run
NoUnit == [res |-> "none", why |-> "", net |-> 0, hit |-> FALSE, manifest |-> FALSE]

\* a stage that a specification leaves out stays as it is here
IdleCache ==
    /\ run = 0
    /\ pc = [p \in Pkgs |-> "idle"]
    /\ main_pc = "idle"
    /\ unit = [r \in 1..MaxRuns |-> [p \in Pkgs |-> NoUnit]]
    /\ seen = [p \in Pkgs |-> {}]

IdleIndex ==
    /\ files = <<>>
    /\ file_res = <<>>
    /\ output = [st |-> "none", entries |-> <<>>]

IdleClassify ==
    /\ cargo_toml_files = <<>>
    /\ closure_res = <<>>
    /\ proc_macros = [st |-> "none", map |-> <<>>]

IdleDeps ==
    /\ mapping = <<>>
    /\ weird_deps = <<>>
    /\ data = <<>>
    /\ pos = <<>>
    /\ stats = <<>>
    /\ dependencies = <<>>
    /\ wd_pc = "idle"

IdleFs ==
    /\ dirs = {}
    /\ cache = <<>>

IdleShard ==
    /\ crate_name = <<>>
    /\ cache_name = [st |-> "none", path |-> <<>>]

InitCache ==
    /\ IdleShard
    /\ IdleIndex
    /\ IdleClassify
    /\ IdleDeps
    /\ dirs = {}
    /\ cache = <<>>
    /\ run = 1
    /\ pc = [p \in Pkgs |-> "check"]
    /\ main_pc = "download"
    /\ unit = [r \in 1..MaxRuns |-> [p \in Pkgs |-> NoUnit]]
    /\ seen = [p \in Pkgs |-> {}]

\* the closure returns: its result is recorded for the run
Return(p, res, why, net, hit, c) ==
    /\ pc' = [pc EXCEPT ![p] = res]
    /\ unit' = [unit EXCEPT ![run][p] =
                    [res |-> res, why |-> why, net |-> net, hit |-> hit,
                     manifest |-> TomlPath(p) \in DOMAIN c]]

\* lines 137-149: get_cache_name, then the test of toml_path
CheckCache(p) ==
    /\ pc[p] = "check"
    /\ \/ \E r \in {x \in GetCacheName(Index[p].name, dirs) : x.ok} :
            /\ dirs' = r.dirs
            /\ IF Exists(TomlPath(p))
               THEN /\ Return(p, "ok", "", 0, TRUE, cache)
                    /\ seen' = [seen EXCEPT ![p] = ContentAt(cache, TomlPath(p))]
               ELSE /\ pc' = [pc EXCEPT ![p] = "fetch"]
                    /\ UNCHANGED <<unit, seen>>
       \/ \E r \in {x \in GetCacheName(Index[p].name, dirs) : ~x.ok} :
            /\ dirs' = r.dirs
            /\ Return(p, "err", "dir", 0, FALSE, cache)
            /\ UNCHANGED seen
    /\ UNCHANGED <<shardVars, indexVars, classifyVars, depsVars, cache, run, main_pc>>

\* lines 150-159: the GET fails, or its body cannot be read
FetchFails(p) ==
    /\ pc[p] = "fetch"
    /\ Return(p, "err", "net", 1, FALSE, cache)
    /\ UNCHANGED <<shardVars, indexVars, classifyVars, depsVars, dirs, cache, run, main_pc, seen>>

\* lines 161-171 on one archive: the path of the file the loop writes, <<>>
\* when it ends without unpacking or unpack_in skips the entry
Unpacked(p, archive) ==
    LET i == ManifestEntry(archive)
    IN IF i = 0 THEN <<>>
       ELSE UnpackTarget(Shard(Index[p].name), archive[i].path)

\* lines 156-172: the GET succeeds with some archive, the entries are scanned,
\* and the first one named Cargo.toml is unpacked into the shard directory
FetchUnpack(p) ==
    /\ pc[p] = "fetch"
    /\ \E target \in {Unpacked(p, archive) : archive \in Archives(p)} :
        IF target = <<>>
        THEN /\ Return(p, "ok", "", 1, FALSE, cache)
             /\ UNCHANGED <<cache, dirs>>
        ELSE \/ /\ cache' = WriteFile(cache, target, p)
                /\ dirs' = dirs \cup Parents(target)
                /\ Return(p, "ok", "", 1, FALSE, cache')
             \/ /\ Return(p, "err", "unpack", 1, FALSE, cache)
                /\ UNCHANGED <<cache, dirs>>
    /\ UNCHANGED <<shardVars, indexVars, classifyVars, depsVars, run, main_pc, seen>>

\* collect::<Result<Vec<_>>>() over the parallel iterator: once a closure has
\* returned Err, a closure that has not started may never be run
SkipUnit(p) ==
    /\ pc[p] = "check"
    /\ \E q \in Pkgs : pc[q] = "err"
    /\ Return(p, "skipped", "", 0, FALSE, cache)
    /\ UNCHANGED <<shardVars, indexVars, classifyVars, depsVars, dirs, cache, run, main_pc, seen>>

Finished(p) == pc[p] \in {"ok", "err", "skipped"}

\* line 173 and main line 26: the collected Result goes through `?` twice;
\* on Ok main goes on to cargo_toml_iterator and find_proc_macros
AfterDownload == IF \E p \in Pkgs : pc[p] = "err" THEN "failed" ELSE "classify"

Collect ==
    /\ main_pc = "download"
    /\ \A p \in Pkgs : Finished(p)
    /\ main_pc' = AfterDownload
    /\ UNCHANGED <<shardVars, indexVars, classifyVars, depsVars, dirs, cache, run, pc, unit, seen>>

\* the program is run again over the same index and the cache left on disk
RunAgain ==
    /\ main_pc \in {"classify", "failed"}
    /\ run < MaxRuns
    /\ run' = run + 1
    /\ pc' = [p \in Pkgs |-> "check"]
    /\ main_pc' = "download"
    /\ UNCHANGED <<shardVars, indexVars, classifyVars, depsVars, dirs, cache, unit, seen>>

NextCache ==
    \/ \E p \in Pkgs : CheckCache(p)
    \/ \E p \in Pkgs : FetchFails(p)
    \/ \E p \in Pkgs : FetchUnpack(p)
    \/ \E p \in Pkgs : SkipUnit(p)
    \/ Collect
    \/ RunAgain

SpecCache == InitCache /\ [][NextCache]_vars

FetchFailureIsolated ==
    (/\ main_pc \in {"classify", "failed"}
     /\ \E p \in Pkgs : unit[run][p].why \in {"net", "unpack"})
        => /\ main_pc = "classify"
           /\ \A q \in Pkgs : pc[q] # "skipped"

\* C6: a manifest that a check found present at its computed path keeps its
\* content through every later step and run.
PresentManifestKept ==
    \A p \in Pkgs :
        seen[p] # {} => ContentAt(cache, TomlPath(p)) = seen[p]

\* the hit itself: a closure that finds its manifest returns Ok without a
\* fetch, and changes no file
HitIsPure ==
    [][\A p \in Pkgs :
        (pc[p] = "check" /\ TomlPath(p) \in DOMAIN cache /\ pc'[p] # "check")
            => /\ cache' = cache
               /\ pc'[p] \in {"ok", "skipped"}
               /\ unit'[run][p].net = 0]_vars

\* C10: every step that changes a file of the cache is the fetch of one
\* package, creates exactly the file at that package's own computed path, and
\* the path held no file before.
WritesOnlyOwnPath ==
    [][\A path \in DOMAIN cache' :
        ContentAt(cache, path) # {cache'[path]}
            => /\ path \notin DOMAIN cache
               /\ \E p \in Pkgs :
                    /\ pc[p] = "fetch"
                    /\ pc'[p] # "fetch"
                    /\ path = TomlPath(p)]_vars


(***************************************************************************)
(* parse_index                                                             *)
(***************************************************************************)
\* the index files handed to parse_index, in the order of the Vec
Files == 1..2

\* a line of an index file: a record serde_json parses into a GitIndexEntry,
\* a line it cannot parse ("bad"), or a line BufRead::lines yields as Err
\* ("unreadable": an I/O error, bytes that are not UTF-8)
Lines ==
    {[kind |-> "rec", vers |-> v, yanked |-> y] : v \in 1..2, y \in BOOLEAN}
    \cup {[kind |-> "bad", vers |-> 0, yanked |-> FALSE],
          [kind |-> "unreadable", vers |-> 0, yanked |-> FALSE]}

FileContents == UNION {[1..k -> Lines] : k \in 0..MaxLines}

\* the GitIndexEntry of a record line of file f
Entry(f, line) == [name |-> f, vers |-> line.vers, yanked |-> line.yanked]

\* the loop of lines 100-107 over the lines as they stand in the file, without
\* the rev() of line 97
RECURSIVE ScanForward(_, _, _)
ScanForward(f, lines, i) ==
    IF i > Len(lines) THEN [st |-> "ok", entries |-> <<>>]
    ELSE IF lines[i].kind = "unreadable" THEN [st |-> "ok", entries |-> <<>>]
    ELSE IF lines[i].kind = "bad" THEN [st |-> "err", entries |-> <<>>]
    ELSE IF ~lines[i].yanked
         THEN [st |-> "ok", entries |-> <<Entry(f, lines[i])>>]
    ELSE ScanForward(f, lines, i + 1)

\* lines 100-107 on the reversed lines, from line i down: the loop ends on
\* the end of the file and on an Err line, `?` returns on a line that does
\* not parse, and the first entry that is not yanked is pushed
RECURSIVE ScanBack(_, _, _)
ScanBack(f, lines, i) ==
    IF i = 0 THEN [st |-> "ok", entries |-> <<>>]
    ELSE IF lines[i].kind = "unreadable" THEN [st |-> "ok", entries |-> <<>>]
    ELSE IF lines[i].kind = "bad" THEN [st |-> "err", entries |-> <<>>]
    ELSE IF ~lines[i].yanked
         THEN [st |-> "ok", entries |-> <<Entry(f, lines[i])>>]
    ELSE ScanBack(f, lines, i - 1)

ResolveOldest(f, lines) == ScanForward(f, lines, 1)

\* the closure of lines 91-110 once the file is open
Resolve(f, lines) == ScanBack(f, lines, Len(lines))

InitIndex ==
    /\ IdleShard
    /\ IdleCache
    /\ IdleClassify
    /\ IdleDeps
    /\ dirs = {}
    /\ cache = <<>>
    /\ files \in [Files -> FileContents]
    /\ file_res = [f \in Files |-> [st |-> "pending", why |-> "", entries |-> <<>>]]
    /\ output = [st |-> "none", entries |-> <<>>]

\* the closure of file f runs: File::open fails, or the lines are resolved
ParseFile(f) ==
    /\ file_res[f].st = "pending"
    /\ \/ LET r == Resolve(f, files[f]) IN
          file_res' = [file_res EXCEPT ![f] =
                [st |-> r.st, why |-> IF r.st = "err" THEN "parse" ELSE "",
                 entries |-> r.entries]]
       \/ file_res' = [file_res EXCEPT ![f] =
                [st |-> "err", why |-> "open", entries |-> <<>>]]
    /\ UNCHANGED <<shardVars, cacheVars, fsVars, classifyVars, depsVars, files, output>>

\* collect::<Result<Vec<_>>>(): after an Err a closure not yet started may
\* never be run
SkipFile(f) ==
    /\ file_res[f].st = "pending"
    /\ \E g \in Files : file_res[g].st = "err"
    /\ file_res' = [file_res EXCEPT ![f] =
                [st |-> "skipped", why |-> "", entries |-> <<>>]]
    /\ UNCHANGED <<shardVars, cacheVars, fsVars, classifyVars, depsVars, files, output>>

\* into_iter().flatten().collect() over the per-file vectors, in file order
RECURSIVE Flatten(_, _)
Flatten(res, f) ==
    IF f > Len(res) THEN <<>> ELSE res[f].entries \o Flatten(res, f + 1)

\* lines 113-120: `output?` returns the error of a closure, else the entries
ParseIndexReturn ==
    /\ output.st = "none"
    /\ \A f \in Files : file_res[f].st # "pending"
    /\ output' = IF \E f \in Files : file_res[f].st = "err"
                 THEN [st |-> "err", entries |-> <<>>]
                 ELSE [st |-> "ok", entries |-> Flatten(file_res, 1)]
    /\ UNCHANGED <<shardVars, cacheVars, fsVars, classifyVars, depsVars, files, file_res>>

NextIndex ==
    \/ \E f \in Files : ParseFile(f)
    \/ \E f \in Files : SkipFile(f)
    \/ ParseIndexReturn

SpecIndex == InitIndex /\ [][NextIndex]_vars

\* every line of the file is a record
AllRecords(lines) == \A i \in 1..Len(lines) : lines[i].kind = "rec"

\* the positions of the records of a file that are not yanked
Live(lines) == {i \in 1..Len(lines) : lines[i].kind = "rec" /\ ~lines[i].yanked}

Newest(S) == CHOOSE i \in S : \A j \in S : j <= i

\* C2: an index file of records that parse_index resolved yields exactly the
\* record closest to its end that is not yanked, and nothing when it is empty
\* or every record is yanked; a file never yields more than one entry, and
\* the value parse_index returns holds the files' entries in file order.
ResolvesNewestLive ==
    /\ \A f \in Files :
        /\ Len(file_res[f].entries) <= 1
        /\ (/\ AllRecords(files[f])
            /\ file_res[f].st \in {"ok", "err"}
            /\ file_res[f].why # "open")
            => /\ file_res[f].st = "ok"
               /\ file_res[f].entries =
                    IF Live(files[f]) = {} THEN <<>>
                    ELSE <<Entry(f, files[f][Newest(Live(files[f]))])>>
    /\ output.st = "ok" =>
        /\ Len(output.entries) <= Cardinality(Files)
        /\ \A f \in Files :
            (AllRecords(files[f]) /\ Live(files[f]) # {})
                => \E k \in 1..Len(output.entries) :
                    output.entries[k] = Entry(f, files[f][Newest(Live(files[f]))])

\* a file whose last record is yanked resolved to the earlier live record,
\* next to a file with nothing but yanked records, and parse_index returned
ResolvesNewestLiveWitness ==
    /\ output.st = "ok"
    /\ \E f \in Files :
        /\ Len(files[f]) = 2
        /\ AllRecords(files[f])
        /\ files[f][2].yanked
        /\ ~files[f][1].yanked
        /\ file_res[f].entries = <<Entry(f, files[f][1])>>
        /\ output.entries = <<Entry(f, files[f][1])>>
    /\ \E g \in Files :
        /\ Len(files[g]) = 2
        /\ AllRecords(files[g])
        /\ Live(files[g]) = {}
        /\ file_res[g].st = "ok"

\* C9: a file with a line that does not parse or cannot be read, wherever the
\* line stands, makes the resolution of the file fail.
BadLineAlwaysFails ==
    \A f \in Files :
        (/\ file_res[f].st \in {"ok", "err"}
         /\ \E i \in 1..Len(files[f]) : files[f][i].kind \in {"bad", "unreadable"})
            => file_res[f].st = "err"

(***************************************************************************)
(* find_proc_macros                                                        *)
(***************************************************************************)
ManifestNames == {"alpha", "beta"}

NoDeps == [some |-> FALSE, keys |-> {}]

\* a manifest file of the cache: fs::read_to_string fails on it
\* ("unreadable"), toml::from_str fails on it ("invalid"), or it parses into
\* a CargoToml with package.name, lib ("none": no [lib]; "unset": [lib]
\* without proc-macro; "false"; "true") and dependencies
NoToml == [kind |-> "unreadable", name |-> "", lib |-> "none", deps |-> NoDeps]

ManifestFiles ==
    {NoToml, [NoToml EXCEPT !.kind = "invalid"]}
    \cup {[kind |-> "toml", name |-> n, lib |-> l, deps |-> d] :
            n \in ManifestNames, l \in {"none", "unset", "false", "true"},
            d \in {NoDeps, [some |-> TRUE, keys |-> {"serde", "syn"}]}}

\* line 245: toml.lib.as_ref().map(|v| v.proc_macro).flatten().unwrap_or_default()
IsProcMacro(toml) == toml.lib = "true"

Pending == [st |-> "pending", some |-> FALSE, toml |-> NoToml]

\* lines 234-250: the closure of one manifest file
Classify(file) ==
    IF file.kind = "unreadable" THEN [st |-> "err", some |-> FALSE, toml |-> NoToml]
    ELSE IF file.kind = "invalid" THEN [st |-> "ok", some |-> FALSE, toml |-> NoToml]
    ELSE IF IsProcMacro(file) THEN [st |-> "ok", some |-> TRUE, toml |-> file]
    ELSE [st |-> "ok", some |-> FALSE, toml |-> NoToml]

InitClassify ==
    /\ IdleShard
    /\ IdleCache
    /\ IdleIndex
    /\ IdleDeps
    /\ IdleFs
    /\ cargo_toml_files \in [1..NumManifests -> ManifestFiles]
    /\ closure_res = [i \in 1..NumManifests |-> Pending]
    /\ proc_macros = [st |-> "none", map |-> <<>>]

ClassifyFile(i) ==
    /\ closure_res[i].st = "pending"
    /\ closure_res' = [closure_res EXCEPT ![i] = Classify(cargo_toml_files[i])]
    /\ UNCHANGED <<shardVars, cacheVars, fsVars, indexVars, depsVars,
                   cargo_toml_files, proc_macros>>

\* collect::<Result<Vec<_>>>(): after an Err a closure not yet started may
\* never be run
SkipManifest(i) ==
    /\ closure_res[i].st = "pending"
    /\ \E j \in DOMAIN closure_res : closure_res[j].st = "err"
    /\ closure_res' = [closure_res EXCEPT ![i] = [Pending EXCEPT !.st = "skipped"]]
    /\ UNCHANGED <<shardVars, cacheVars, fsVars, indexVars, depsVars,
                   cargo_toml_files, proc_macros>>

\* lines 252-254: the Some((name, toml)) pairs collected into a BTreeMap in
\* the order of the files, a later pair replacing an earlier one of its name
RECURSIVE CollectMap(_, _, _)
CollectMap(res, i, m) ==
    IF i > Len(res) THEN m
    ELSE IF ~res[i].some THEN CollectMap(res, i + 1, m)
    ELSE CollectMap(res, i + 1,
            [n \in DOMAIN m \cup {res[i].toml.name} |->
                IF n = res[i].toml.name THEN res[i].toml ELSE m[n]])

\* lines 251-259: `?` on the collected Result, then the map
FindProcMacrosReturn ==
    /\ proc_macros.st = "none"
    /\ \A i \in DOMAIN closure_res : closure_res[i].st # "pending"
    /\ proc_macros' =
        IF \E i \in DOMAIN closure_res : closure_res[i].st = "err"
        THEN [st |-> "err", map |-> <<>>]
        ELSE [st |-> "ok", map |-> CollectMap(closure_res, 1, <<>>)]
    /\ UNCHANGED <<shardVars, cacheVars, fsVars, indexVars, depsVars,
                   cargo_toml_files, closure_res>>

NextClassify ==
    \/ \E i \in 1..NumManifests : ClassifyFile(i)
    \/ \E i \in 1..NumManifests : SkipManifest(i)
    \/ FindProcMacrosReturn

SpecClassify == InitClassify /\ [][NextClassify]_vars

\* the files that are read and parsed, and declare a proc macro
Macros(fs) == {i \in 1..Len(fs) : fs[i].kind = "toml" /\ fs[i].lib = "true"}

\* what the files other than the failing ones classify to
ClassifiedWithoutBad(fs) ==
    [n \in {fs[i].name : i \in Macros(fs)} |->
        fs[CHOOSE i \in Macros(fs) :
            /\ fs[i].name = n
            /\ \A j \in Macros(fs) : fs[j].name = n => j <= i]]

\* C7: whatever manifest files fail to be read or parsed, find_proc_macros
\* returns success, with the classification of the files that do not fail.
BadManifestSkipped ==
    proc_macros.st # "none" =>
        /\ proc_macros.st = "ok"
        /\ proc_macros.map = ClassifiedWithoutBad(cargo_toml_files)

\* the part of C7 that the code keeps: a file that reads but does not parse
\* is skipped
InvalidManifestSkipped ==
    (/\ proc_macros.st # "none"
     /\ \A i \in 1..NumManifests : cargo_toml_files[i].kind # "unreadable")
        => /\ proc_macros.st = "ok"
           /\ proc_macros.map = ClassifiedWithoutBad(cargo_toml_files)

(***************************************************************************)
(* find_weird_dependencies and write_data                                  *)
(***************************************************************************)
NORMAL_DEPS ==
    <<"syn", "proc-macro2", "quote", "proc-macro-error", "proc-macro-crate",
      "proc-macro-hack", "darling", "heck", "lazy_static", "regex", "Inflector",
      "anyhow", "convert_case", "itertools", "once_cell", "rand",
      "synstructure", "unicode-xid", "failure">>

\* the dependency names the manifests draw on, in the order of a BTreeMap's
\* String keys
DepOrder == <<"my-weird-dep", "serde", "syn", "tokio">>

DepNames == {DepOrder[i] : i \in 1..Len(DepOrder)}

\* Option<BTreeMap<String, toml::Value>>: only the keys are read
DepsOptions == {NoDeps} \cup {[some |-> TRUE, keys |-> k] : k \in SUBSET DepNames}

\* the package names, in the order of the BTreeMap's keys; mapping holds the
\* ones find_proc_macros classified as proc macros
MacroNames == 1..NumMacros

\* lines 291-293: deps.remove for every name of NORMAL_DEPS
RECURSIVE Strip(_, _)
Strip(keys, i) ==
    IF i > Len(NORMAL_DEPS) THEN keys ELSE Strip(keys \ {NORMAL_DEPS[i]}, i + 1)

\* lines 286-301: the packages with dependencies left after the removal,
\* each with what is left
FindWeirdDependencies(m) ==
    [n \in {x \in DOMAIN m : m[x].some /\ Strip(m[x].keys, 1) # {}} |->
        [some |-> TRUE, keys |-> Strip(m[n].keys, 1)]]

\* the filter with the threshold at > 0
SignificantFromOne(deps) == (IF deps.some THEN Cardinality(deps.keys) ELSE 0) > 0

\* line 316: dependencies.map(len).unwrap_or_default() > 1
Significant(deps) == (IF deps.some THEN Cardinality(deps.keys) ELSE 0) > 1

\* lines 315-321
SelectData(w) == [n \in {x \in DOMAIN w : Significant(w[x])} |-> w[n]]

\* into_keys().collect(): the keys in ascending order
RECURSIVE KeysFrom(_, _)
KeysFrom(keys, i) ==
    IF i > Len(DepOrder) THEN <<>>
    ELSE (IF DepOrder[i] \in keys THEN <<DepOrder[i]>> ELSE <<>>)
            \o KeysFrom(keys, i + 1)

SortedKeys(keys) == KeysFrom(keys, 1)

\* an insert of a fresh counter in place of or_insert: a count already there
\* is lost
CountOverwrite(st, dep) ==
    [d \in DOMAIN st \cup {dep} |-> IF d = dep THEN 1 ELSE st[d]]

\* line 328: entry(dep).or_insert(AtomicUsize::new(0)).fetch_add(1), one
\* step under the lock the entry holds on its shard of the map
Count(st, dep) ==
    [d \in DOMAIN st \cup {dep} |->
        IF d # dep THEN st[d] ELSE IF dep \in DOMAIN st THEN st[dep] + 1 ELSE 1]

\* lines 325-334: the Data of every package of data, in the order of its keys
RECURSIVE DataFrom(_, _)
DataFrom(d, n) ==
    IF n > NumMacros THEN <<>>
    ELSE (IF n \in DOMAIN d
          THEN <<[name |-> n, deps |-> SortedKeys(d[n].keys)]>> ELSE <<>>)
            \o DataFrom(d, n + 1)

InitDeps ==
    /\ IdleShard
    /\ IdleCache
    /\ IdleIndex
    /\ IdleClassify
    /\ IdleFs
    /\ mapping \in UNION {[S -> DepsOptions] : S \in SUBSET MacroNames}
    /\ weird_deps = <<>>
    /\ data = <<>>
    /\ pos = <<>>
    /\ stats = <<>>
    /\ dependencies = <<>>
    /\ wd_pc = "find_weird_dependencies"

\* main line 31
CallFindWeirdDependencies ==
    /\ wd_pc = "find_weird_dependencies"
    /\ weird_deps' = FindWeirdDependencies(mapping)
    /\ wd_pc' = "write_data"
    /\ UNCHANGED <<shardVars, cacheVars, fsVars, indexVars, classifyVars,
                   mapping, data, pos, stats, dependencies>>

\* write_data, lines 313-323: the empty DashMap and the filter
Filter ==
    /\ wd_pc = "write_data"
    /\ data' = SelectData(weird_deps)
    /\ pos' = [n \in DOMAIN data' |-> 0]
    /\ stats' = <<>>
    /\ wd_pc' = "tally"
    /\ UNCHANGED <<shardVars, cacheVars, fsVars, indexVars, classifyVars,
                   mapping, weird_deps, dependencies>>

\* write_data, lines 327-329: the closure of package n counts its next dep
Tally(n) ==
    /\ wd_pc = "tally"
    /\ n \in DOMAIN data
    /\ pos[n] < Len(SortedKeys(data[n].keys))
    /\ stats' = Count(stats, SortedKeys(data[n].keys)[pos[n] + 1])
    /\ pos' = [pos EXCEPT ![n] = @ + 1]
    /\ UNCHANGED <<shardVars, cacheVars, fsVars, indexVars, classifyVars,
                   mapping, weird_deps, data, dependencies, wd_pc>>

\* write_data, lines 330-342: every closure has returned its Data; the two
\* documents are written, or a write fails and `?` returns the error
WriteOut ==
    /\ wd_pc = "tally"
    /\ \A n \in DOMAIN data : pos[n] = Len(SortedKeys(data[n].keys))
    /\ dependencies' = DataFrom(data, 1)
    /\ wd_pc' \in {"done", "failed"}
    /\ UNCHANGED <<shardVars, cacheVars, fsVars, indexVars, classifyVars,
                   mapping, weird_deps, data, pos, stats>>

NextDeps ==
    \/ CallFindWeirdDependencies
    \/ Filter
    \/ \E n \in MacroNames : Tally(n)
    \/ WriteOut

SpecDeps == InitDeps /\ [][NextDeps]_vars

NormalSet == {NORMAL_DEPS[i] : i \in 1..Len(NORMAL_DEPS)}

\* what is left of the declared dependencies of n outside the allow-list
Residual(n) ==
    IF n \in DOMAIN mapping /\ mapping[n].some
    THEN mapping[n].keys \ NormalSet ELSE {}

Listed(n) == {k \in 1..Len(dependencies) : dependencies[k].name = n}

SeqToSet(q) == {q[i] : i \in 1..Len(q)}

\* C3: once write_data has collected the listing, a package is in it exactly
\* when it was classified as a proc macro and its dependencies outside
\* NORMAL_DEPS are more than one; it is listed once, with exactly those
\* dependencies.
ListingExact ==
    wd_pc \in {"done", "failed"} =>
        \A n \in MacroNames :
            /\ (Listed(n) # {}) <=>
                    (n \in DOMAIN mapping /\ Cardinality(Residual(n)) > 1)
            /\ Cardinality(Listed(n)) <= 1
            /\ \A k \in Listed(n) :
                /\ SeqToSet(dependencies[k].deps) = Residual(n)
                /\ Len(dependencies[k].deps) = Cardinality(Residual(n))

\* {syn, my-weird-dep, serde} is listed with {my-weird-dep, serde}, next to
\* a package left out for a residual of one or none
ListingWitness ==
    /\ wd_pc = "done"
    /\ \E n \in DOMAIN mapping :
        /\ mapping[n] = [some |-> TRUE, keys |-> {"syn", "my-weird-dep", "serde"}]
        /\ \E k \in Listed(n) : dependencies[k].deps = <<"my-weird-dep", "serde">>
    /\ \E n \in DOMAIN mapping :
        /\ mapping[n].some
        /\ mapping[n].keys \in {{"syn"}, {"my-weird-dep"}}
        /\ Listed(n) = {}

\* the packages that pass the filter of Step 2
Survivors == {n \in MacroNames : Cardinality(Residual(n)) > 1}

\* C4: when the closures of write_data have all returned, in whatever order
\* their increments were interleaved, the table holds for each dependency name
\* the number of surviving packages whose residual set has it, and no entry
\* for a name no surviving package has.
TallyExact ==
    wd_pc \in {"done", "failed"} =>
        /\ DOMAIN stats = UNION {Residual(n) : n \in Survivors}
        /\ \A d \in DOMAIN stats :
            stats[d] = Cardinality({n \in Survivors : d \in Residual(n)})

\* two surviving packages share serde: it is counted twice, the others once
TallyWitness ==
    /\ wd_pc = "done"
    /\ \E n \in MacroNames : \E m \in MacroNames :
        /\ n # m
        /\ Residual(n) = {"my-weird-dep", "serde"}
        /\ Residual(m) = {"serde", "tokio"}
    /\ stats = [d \in {"my-weird-dep", "serde", "tokio"} |->
                    IF d = "serde" THEN 2 ELSE 1]

(***************************************************************************)
(* Specification SpecShard: one call of get_cache_name on any name         *)
(***************************************************************************)
InitShard ==
    /\ crate_name \in Names
    /\ cache_name = [st |-> "none", path |-> <<>>]
    /\ dirs \in {{}, {<<CARGO_TOML_CACHE>>}}
    /\ cache = <<>>
    /\ IdleCache
    /\ IdleIndex
    /\ IdleClassify
    /\ IdleDeps

CallGetCacheName ==
    /\ cache_name.st = "none"
    /\ \E r \in GetCacheName(crate_name, dirs) :
        /\ cache_name' = [st |-> IF r.ok THEN "ok" ELSE "err", path |-> r.path]
        /\ dirs' = r.dirs
    /\ UNCHANGED <<crate_name, cache, cacheVars, indexVars, classifyVars, depsVars>>

NextShard == CallGetCacheName

SpecShard == InitShard /\ [][NextShard]_vars

\* C8: get_cache_name returns, for a name of length 1 the directory
\* toml_cache/1, of length 2 toml_cache/2, of length 3 toml_cache/3/<first
\* char>, of length >= 4 toml_cache/<first two chars>/<next two chars>; the
\* directory depends on the name only, and it exists when the call returns it.
ShardingExact ==
    cache_name.st = "ok" =>
        LET n == Len(crate_name)
            p == cache_name.path IN
        /\ p[1] = CARGO_TOML_CACHE
        /\ n = 1 => (Len(p) = 2 /\ p[2] = <<"1">>)
        /\ n = 2 => (Len(p) = 2 /\ p[2] = <<"2">>)
        /\ n = 3 => (Len(p) = 3 /\ p[2] = <<"3">> /\ p[3] = <<crate_name[1]>>)
        /\ n >= 4 => /\ Len(p) = 3
                     /\ p[2] = <<crate_name[1], crate_name[2]>>
                     /\ p[3] = <<crate_name[3], crate_name[4]>>
        /\ crate_name = <<"a">> => p = <<CARGO_TOML_CACHE, <<"1">>>>
        /\ crate_name = <<"a", "b">> => p = <<CARGO_TOML_CACHE, <<"2">>>>
        /\ crate_name = <<"a", "b", "c">> => p = <<CARGO_TOML_CACHE, <<"3">>, <<"a">>>>
        /\ crate_name = <<"a", "b", "c", "d", "x", "y", "z">> =>
                p = <<CARGO_TOML_CACHE, <<"a", "b">>, <<"c", "d">>>>
        /\ p \in dirs

\* abcdxyz was sharded to toml_cache/ab/cd, which the call made
ShardingWitness ==
    /\ cache_name.st = "ok"
    /\ crate_name = <<"a", "b", "c", "d", "x", "y", "z">>
    /\ cache_name.path = <<CARGO_TOML_CACHE, <<"a", "b">>, <<"c", "d">>>>
    /\ cache_name.path \in dirs

====
